---- MODULE Spec2Model ----
(***************************************************************************)
(* A model of toypatch's `patch` program (src/src/patch.rs, common.rs).    *)
(*                                                                         *)
(* Text is modelled character by character: a line is a tuple of           *)
(* one-character strings, a file is a tuple of lines, a path is a tuple of *)
(* characters.  Option<T> is a tuple of length 0 (None) or 1 (Some).       *)
(* Every model file is shorter than the 8 KiB buffer of std's BufReader,   *)
(* so the first read through a BufReader moves the file offset to the end. *)
(***************************************************************************)
EXTENDS Integers, Sequences, FiniteSets, TLC

\* ------------------------------------------------------------------ bounds
\* Longest target file (lines) the initial file system holds.
MaxFileLen == 2
\* Most patch lines one run reads.
MaxPatchLines == 3
\* Largest old/new length an already parsed hunk header declares.
MaxHunkCount == 2

\* ------------------------------------------------------------- basic values
None == <<>>
Some(v) == <<v>>
Unwrap(o) == o[1]

\* char::is_ascii_whitespace
is_ascii_whitespace(c) == c \in {" ", "\t", "\n", "\f", "\r"}

\* char::is_ascii_digit
is_ascii_digit(c) == c \in {"0", "1", "2", "3", "4", "5", "6", "7", "8", "9"}

\* str::starts_with for a one-character pattern
starts_with(line, c) == Len(line) > 0 /\ line[1] = c

\* str::starts_with for a string pattern
starts_with_str(line, p) == Len(line) >= Len(p) /\ SubSeq(line, 1, Len(p)) = p

\* &line[n..]
DropChars(line, n) == SubSeq(line, n + 1, Len(line))

\* A usize is kept as its residue modulo 2^64, written with the representative
\* nearest zero: 2^64 - 1 is written -1.  A debug build panics where a release
\* build wraps.

\* the exit status of a Rust process whose main returns Err
EXIT_FAILURE == 1
\* the exit status of a Rust process that panics
EXIT_PANIC == 101

\* common.rs: DEVNULL() on the non-windows targets
DEVNULL == <<"/", "d", "e", "v", "/", "n", "u", "l", "l">>

\* ------------------------------------------------------------- comparison
\* common.rs loosecmp: both skip_while adaptors are built and dropped without
\* being advanced, so the loop compares the two strings character by character.
RECURSIVE loosecmp(_, _)
loosecmp(aa, bb) ==
    LET pa == IF aa = <<>> THEN None ELSE Some(Head(aa))
        pb == IF bb = <<>> THEN None ELSE Some(Head(bb))
    IN  IF pa # pb THEN "Greater"
        ELSE IF pa = None THEN "Equal"
        ELSE loosecmp(Tail(aa), Tail(bb))

\* str::cmp, as far as the program looks at it (it only tests for Equal)
str_cmp(aa, bb) == IF aa = bb THEN "Equal" ELSE "Unequal"

\* apply_one_hunk's closure lcmp
lcmp(toy, aa, bb) == IF toy.loose # None THEN loosecmp(aa, bb) ELSE str_cmp(aa, bb)

\* ------------------------------------------------------------ file system
\* fs maps a path to None (no such file) or Some(lines).
Exists(fs, p) == p \in DOMAIN fs /\ fs[p] # None

\* writeln!(f, ..) on an open handle: /dev/null swallows the line, an unlinked
\* file keeps no visible content.
WriteLine(fs, p, l) ==
    IF p = DEVNULL \/ ~Exists(fs, p) THEN fs
    ELSE [fs EXCEPT ![p] = Some(Append(Unwrap(@), l))]

\* The lines a read handle [path, pos] has not delivered yet.
Unread(fs, h) ==
    IF Exists(fs, h.path) THEN DropChars(Unwrap(fs[h.path]), h.pos) ELSE <<>>

\* The read handle after a BufReader filled its buffer from it.
Drained(fs, h) ==
    IF Exists(fs, h.path) THEN [h EXCEPT !.pos = Len(Unwrap(fs[h.path]))] ELSE h

\* ------------------------------------------------------------ the handlers
\* A handler works on w = [g, fs, res, ret, msg, diag]: the Globals, the file
\* system, how the call ended ("ok", "err" for a returned Err, "panic"; "hang"
\* for a loop that never ends), the returned value, the error message, and the
\* diagnostics printed to stderr.
Err(w, m) == [w EXCEPT !.res = "err", !.msg = m]
Panic(w, m) == [w EXCEPT !.res = "panic", !.msg = m]

\* do_line after `*outnum += 1`
do_line_out(w, data) ==
    IF w.g.state <= 1 \/ w.g.state = 2 THEN w
    ELSE IF w.g.fileout = None THEN Panic(w, "unwrap on None")
    ELSE IF w.g.state > 3 /\ data = <<>> THEN Panic(w, "slice")
    ELSE [w EXCEPT !.fs = WriteLine(@, Unwrap(w.g.fileout),
                                    IF w.g.state > 3 THEN DropChars(data, 1) ELSE data)]

\* do_line(outnum, state, fileout, data)
do_line(w, data) ==
    IF w.res # "ok" THEN w ELSE do_line_out([w EXCEPT !.g.outnum = @ + 1], data)

\* `for i in buf { do_line(.., &i)?; }`
RECURSIVE do_lines(_, _)
do_lines(w, lines) ==
    IF lines = <<>> \/ w.res # "ok" THEN w
    ELSE do_lines(do_line(w, Head(lines)), Tail(lines))

\* finish_oldfile: `self.fileout = None; self.filein = None;`
close_files(w) == [w EXCEPT !.g.fileout = None, !.g.filein = None]

\* finish_oldfile: `io::copy(&mut a, &mut b)?`
io_copy(w) ==
    IF w.g.filein = None THEN w
    ELSE [w EXCEPT !.fs = IF Unwrap(w.g.fileout) = DEVNULL \/ ~Exists(@, Unwrap(w.g.fileout)) THEN @
                          ELSE [@ EXCEPT ![Unwrap(w.g.fileout)] =
                                   Some(Unwrap(@) \o Unread(w.fs, Unwrap(w.g.filein)))],
                   !.g.filein = Some(Drained(w.fs, Unwrap(@)))]

\* finish_oldfile: `fs::rename(tempname?, destname?)?; self.tempname = None;`
rename_temp(w) ==
    IF w.g.destname = None THEN Err(w, "destname unset?!")
    ELSE IF ~Exists(w.fs, Unwrap(w.g.tempname)) THEN Err(w, "rename")
    ELSE close_files([w EXCEPT !.fs = [@ EXCEPT ![Unwrap(w.g.destname)] = w.fs[Unwrap(w.g.tempname)],
                                                ![Unwrap(w.g.tempname)] = None],
                               !.g.tempname = None])

\* Globals::finish_oldfile
finish_oldfile(w) ==
    IF w.res # "ok" THEN w
    ELSE IF w.g.tempname = None THEN close_files(w)
    ELSE IF w.g.filein # None /\ w.g.fileout = None THEN Err(w, "fileout unavailable")
    ELSE IF w.g.filein # None /\ Unwrap(w.g.filein).mode # "r" THEN Err(w, "io::copy")
    ELSE rename_temp(io_copy(w))

\* fail_hunk: `std::fs::remove_file(self.tempname?)?; }  self.state = 0;`
remove_temp(w) ==
    IF w.g.tempname = None THEN Err(w, "No temp file to remove")
    ELSE IF ~Exists(w.fs, Unwrap(w.g.tempname)) THEN Err(w, "remove_file")
    ELSE [w EXCEPT !.fs = [@ EXCEPT ![Unwrap(w.g.tempname)] = None], !.g.state = 0]

\* fail_hunk after the test for an empty hunk
discard_hunk(w, toy) ==
    IF toy.dry_run THEN [w EXCEPT !.g.state = 0]
    ELSE remove_temp([w EXCEPT !.g.filein = None, !.g.fileout = None])

\* Globals::fail_hunk
fail_hunk(w, toy) ==
    IF w.res # "ok" \/ w.g.current_hunk = <<>> THEN w
    ELSE discard_hunk([w EXCEPT !.diag = @ \cup {"FAILED"},
                                !.g.exitval = Some(1),
                                !.g.state = 2,
                                !.g.current_hunk = <<>>], toy)

\* ---------------------------------------------------------- apply_one_hunk
\* `trail` after the first pass over the hunk
RECURSIVE trail_from(_, _)
trail_from(hunk, t) ==
    IF hunk = <<>> THEN t
    ELSE trail_from(Tail(hunk), IF starts_with(Head(hunk), " ") THEN t + 1 ELSE 0)

\* skip_while(|c| c.is_ascii_whitespace())
RECURSIVE skip_ws(_)
skip_ws(s) ==
    IF s # <<>> /\ is_ascii_whitespace(Head(s)) THEN skip_ws(Tail(s)) ELSE s

\* `s.nth(1)` is Some(v) with v no whitespace
second_is_black(s) == Len(s) >= 2 /\ ~is_ascii_whitespace(s[2])

\* whether a hunk line adds one to the first pass's `fuzz` counter
counts_for_fuzz(line, reverse) ==
    /\ starts_with(line, " ") \/ starts_with(line, IF reverse THEN "+" ELSE "-")
    /\ second_is_black(skip_ws(DropChars(line, 1)))

\* `fuzz` after the first pass over the hunk
RECURSIVE fuzz_lines(_, _)
fuzz_lines(hunk, reverse) ==
    IF hunk = <<>> THEN 0
    ELSE (IF counts_for_fuzz(Head(hunk), reverse) THEN 1 ELSE 0)
         + fuzz_lines(Tail(hunk), reverse)

\* `let matcheof = trail == 0 || trail < self.context`
matcheof_of(trail, context) == trail = 0 \/ trail < context

\* `let _allfuzz = ...`: the budget the first pass computes
computed_allfuzz(hunk, toy, context) ==
    IF fuzz_lines(hunk, toy.reverse) < 2 THEN 0
    ELSE IF toy.fuzz # None THEN Unwrap(toy.fuzz)
    ELSE IF context > 0 THEN context - 1 ELSE 0

\* `let mut allfuzz = 0;`: the budget the matching loop compares with
allfuzz == 0

\* The skip loop's test of one hunk line: whether it sets backwarn
sets_backwarn(v, data, toy, backwarn) ==
    /\ starts_with(v, IF toy.reverse THEN "-" ELSE "+")
    /\ data # None
    /\ lcmp(toy, Unwrap(data), DropChars(v, 1)) = "Equal"
    /\ backwarn = 0

\* The skip loop: pops lines off the front of plist, which is current_hunk.
RECURSIVE skip_loop(_, _, _, _, _)
skip_loop(plist, data, toy, linenum, backwarn) ==
    IF plist = <<>> THEN [plist |-> plist, backwarn |-> backwarn]
    ELSE skip_loop(Tail(plist), data, toy, linenum,
                   IF sets_backwarn(Head(plist), data, toy, backwarn) THEN linenum ELSE backwarn)

\* '+' as u32, '-' as u32
PLUS == 43
MINUS == 45

\* `for line in &self.current_hunk { ... }` of the emission; e = [w, buf]
RECURSIVE emit_lines(_, _)
emit_lines(e, hunk) ==
    IF hunk = <<>> \/ e.w.res # "ok" THEN e
    ELSE IF starts_with(Head(hunk), IF e.w.g.state = PLUS THEN "+" ELSE "-")
            \/ is_ascii_whitespace(Head(hunk)[1]) THEN
        IF e.buf = <<>> THEN [e EXCEPT !.w = Panic(@, "drain")]
        ELSE IF ~is_ascii_whitespace(Head(hunk)[1])
        THEN emit_lines([e EXCEPT !.buf = Tail(@)], Tail(hunk))
        ELSE IF e.w.g.fileout = None THEN [e EXCEPT !.w = Panic(@, "unwrap on None")]
        ELSE emit_lines([e EXCEPT !.w.fs = WriteLine(@, Unwrap(e.w.g.fileout), Head(e.buf)),
                                  !.buf = Tail(@)], Tail(hunk))
    ELSE IF e.w.g.fileout = None THEN [e EXCEPT !.w = Panic(@, "unwrap on None")]
    ELSE emit_lines([e EXCEPT !.w.fs = WriteLine(@, Unwrap(e.w.g.fileout), DropChars(Head(hunk), 1))],
                    Tail(hunk))

\* `return Ok(self.state)`
returned(w) == IF w.res # "ok" THEN w ELSE [w EXCEPT !.ret = w.g.state]

\* `self.current_hunk.clear(); self.state = 1;`, then "done:"
emit_done(e) ==
    IF e.w.res # "ok" THEN e.w
    ELSE returned(do_lines([e.w EXCEPT !.g.current_hunk = <<>>, !.g.state = 1], e.buf))

\* "We have a match. Emit changed data."
emit(w, buf, toy) ==
    emit_done(emit_lines([w |-> [w EXCEPT !.g.state = IF toy.reverse THEN PLUS ELSE MINUS],
                          buf |-> buf],
                         w.g.current_hunk))

\* fail_hunk, then "done:"
fail_and_done(w, buf, toy) == returned(do_lines(fail_hunk(w, toy), buf))

\* The matching loops work on L = [w, buf, c, fuzz, backwarn, rest]: `check` is
\* &buf[c..], `plist` is w.g.current_hunk itself (a &mut borrow of it), `rest`
\* the lines the BufReader has not delivered yet.  pre = [trail, matcheof].
RECURSIVE inner_loop(_, _, _)
RECURSIVE outer_loop(_, _, _)

\* "Write out first line of buffer and recheck rest for new match.", after the
\* lines are written.  The buffer keeps its first line and plist is not
\* rewound, so an iteration that started from check = buf and fuzz = 0 and got
\* here without a pop is repeated without end.
slide_on(L, w1, again, toy, pre) ==
    IF w1.res # "ok" THEN w1
    ELSE IF L.buf = <<>> THEN outer_loop([L EXCEPT !.w = w1, !.fuzz = 0, !.c = 0], toy, pre)
    ELSE IF again THEN [w1 EXCEPT !.res = "hang"]
    ELSE inner_loop([L EXCEPT !.w = w1, !.fuzz = 0, !.c = 0], toy, pre)

\* "If this hunk must match start of file, fail if it didn't.", else slide
mismatch_tail(L, popped, toy, pre) ==
    IF L.w.g.context = 0 \/ pre.trail > L.w.g.context
    THEN fail_and_done(L.w, L.buf, toy)
    ELSE slide_on(L, do_lines([L.w EXCEPT !.g.state = 3], DropChars(L.buf, 1)),
                  L.c = 0 /\ L.fuzz = 0 /\ ~popped, toy, pre)

\* `check = &check[1..]; if check == buf { break; }`
next_check(L, fuzzed, toy, pre) ==
    IF DropChars(L.buf, L.c) = L.buf THEN outer_loop(L, toy, pre)
    ELSE IF fuzzed THEN mismatch_tail(L, TRUE, toy, pre)
    ELSE inner_loop(L, toy, pre)

\* "This line matches. Advance plist, detect successful match.", after the pop
advance(L, fuzzed, toy, pre) ==
    IF L.w.g.current_hunk = <<>> /\ ~pre.matcheof THEN emit(L.w, L.buf, toy)
    ELSE next_check([L EXCEPT !.c = @ + 1], fuzzed, toy, pre)

\* The compare loop `loop { let a = check.first()...; let b = plist.front()...; }`
inner_loop(L, toy, pre) ==
    IF DropChars(L.buf, L.c) = <<>> \/ L.w.g.current_hunk = <<>>
    THEN Err(L.w, "No line to process!")
    ELSE IF lcmp(toy, L.buf[L.c + 1], DropChars(L.w.g.current_hunk[1], 1)) = "Equal"
    THEN advance([L EXCEPT !.w.g.current_hunk = Tail(@)], FALSE, toy, pre)
    ELSE IF is_ascii_whitespace(L.w.g.current_hunk[1][1]) /\ L.fuzz < allfuzz
    THEN advance([L EXCEPT !.w.g.current_hunk = Tail(@), !.fuzz = @ + 1], TRUE, toy, pre)
    ELSE mismatch_tail(L, FALSE, toy, pre)

\* "Is this EOF?", after the skip loop (sk is its result)
after_skip(L, sk, toy, pre) ==
    IF L.rest # <<>> THEN
        inner_loop([L EXCEPT !.w.g.current_hunk = sk.plist,
                             !.w.g.linenum = @ + 1,
                             !.buf = Append(@, Head(L.rest)),
                             !.c = 0,
                             !.rest = Tail(@),
                             !.backwarn = sk.backwarn],
                   toy, pre)
    ELSE IF sk.plist = <<>> /\ pre.matcheof
    THEN emit([L.w EXCEPT !.g.current_hunk = sk.plist], L.buf, toy)
    ELSE fail_and_done([L.w EXCEPT !.g.current_hunk = sk.plist,
                                   !.diag = IF sk.backwarn # 0 /\ toy.silent
                                            THEN @ \cup {"reversed"} ELSE @],
                       L.buf, toy)

\* The read loop `loop { let data = filein.next(); ... }`
outer_loop(L, toy, pre) ==
    after_skip(L,
               skip_loop(L.w.g.current_hunk,
                         IF L.rest = <<>> THEN None ELSE Some(Head(L.rest)),
                         toy, L.w.g.linenum, L.backwarn),
               toy, pre)

\* apply_one_hunk once `trail` is known
search(w, toy, trail) ==
    outer_loop([w |-> [w EXCEPT !.g.filein = Some(Drained(w.fs, Unwrap(@)))],
                buf |-> <<>>, c |-> 0, fuzz |-> 0, backwarn |-> 0,
                rest |-> Unread(w.fs, Unwrap(w.g.filein))],
               toy,
               [trail |-> trail, matcheof |-> matcheof_of(trail, w.g.context)])

\* Globals::apply_one_hunk
apply_one_hunk(w, toy) ==
    IF w.g.filein = None THEN Err(w, "Unavailable input!")
    ELSE IF Unwrap(w.g.filein).mode # "r" THEN Panic(w, "unwrap on Err")
    ELSE search(w, toy, trail_from(w.g.current_hunk, 0))

\* ------------------------------------------------------------------- main
\* the stand-in for the NUL character
NUL == "NUL"

DigitChars == <<"0", "1", "2", "3", "4", "5", "6", "7", "8", "9">>

\* the value of a string of digits
RECURSIVE digits_value(_, _)
digits_value(x, acc) ==
    IF x = <<>> THEN acc
    ELSE digits_value(Tail(x), acc * 10 + (CHOOSE d \in 0..9 : DigitChars[d + 1] = Head(x)))

\* str::parse::<usize> without the sign
parse_digits(x) ==
    IF x # <<>> /\ \A k \in 1..Len(x) : is_ascii_digit(x[k])
    THEN Some(digits_value(x, 0)) ELSE None

\* str::parse::<usize>: an optional '+', then one or more digits
parse_usize(x) == parse_digits(IF starts_with(x, "+") THEN Tail(x) ELSE x)

\* `.skip_while(|c| *c != '\t')`
RECURSIVE skip_to_tab(_)
skip_to_tab(x) == IF x # <<>> /\ Head(x) # "\t" THEN skip_to_tab(Tail(x)) ELSE x

\* `match s.parse::<usize>() { Ok(i) => if i <= 1970 ...`
is_epoch(i) == i # None /\ Unwrap(i) <= 1970

\* "Trim date from end of filename": whether a `--- `/`+++ ` line names /dev/null
header_is_devnull(patchline) == is_epoch(parse_usize(skip_to_tab(DropChars(patchline, 4))))

\* `.peeking_take_while(|c| c.is_ascii_digit())`
RECURSIVE take_digits(_)
take_digits(x) ==
    IF x # <<>> /\ is_ascii_digit(Head(x)) THEN <<Head(x)>> \o take_digits(Tail(x)) ELSE <<>>

\* What is left of s after the digits d were taken from y: the temporary
\* Peekable holds the first character after the digits when it is dropped, so
\* that character is gone from s.
taken(y, d) == [x |-> d, s |-> DropChars(y, Len(d) + 1)]

\* `s.by_ref().skip_while(ws).peekable().peeking_take_while(digit).collect()`
read_number(x) == taken(skip_ws(x), take_digits(skip_ws(x)))

\* `,len` after the number a: b is the number read after the comma
with_len(a, b) ==
    IF parse_usize(b.x) = None THEN None
    ELSE Some([line |-> Unwrap(parse_usize(a.x)), len |-> Unwrap(parse_usize(b.x)), s |-> b.s])

\* line[,len] once the first number a is read
pair_after(a) ==
    IF parse_usize(a.x) = None THEN None
    ELSE IF starts_with(a.s, ",") THEN with_len(a, read_number(Tail(a.s)))
    ELSE Some([line |-> Unwrap(parse_usize(a.x)), len |-> 1, s |-> a.s])

\* "Read oldline[,oldlen] +newline[,newlen]": one of the two pairs, None for an Err
read_pair(x) == pair_after(read_number(x))

\* the four numbers once both pairs are read
header_fields(old, new) ==
    IF new = None THEN None
    ELSE Some([oldline |-> Unwrap(old).line, oldlen |-> Unwrap(old).len,
               newline |-> Unwrap(new).line, newlen |-> Unwrap(new).len])

\* the second pair, after the two `s.by_ref().next().ok_or_else(..)?`
new_pair(old) ==
    IF old = None THEN None
    ELSE IF Len(Unwrap(old).s) < 2 THEN None
    ELSE header_fields(old, read_pair(DropChars(Unwrap(old).s, 2)))

\* the `@@ -` header's numbers, None for an Err
parse_hunk_header(patchline) == new_pair(read_pair(DropChars(patchline, 4)))

\* ------------------------------------------------------------------ paths
\* The file system of the model holds regular files only, no directories.
\* The non-empty segments of a path between its '/' separators
RECURSIVE segments(_, _)
segments(name, cur) ==
    IF name = <<>> THEN (IF cur = <<>> THEN <<>> ELSE <<cur>>)
    ELSE IF Head(name) = "/" THEN (IF cur = <<>> THEN <<>> ELSE <<cur>>) \o segments(Tail(name), <<>>)
    ELSE segments(Tail(name), Append(cur, Head(name)))

RECURSIVE join_segments(_)
join_segments(segs) ==
    IF segs = <<>> THEN <<>>
    ELSE IF Len(segs) = 1 THEN segs[1]
    ELSE segs[1] \o <<"/">> \o join_segments(Tail(segs))

\* Path::components(): the root, if any, then the segments
n_components(name) == (IF starts_with(name, "/") THEN 1 ELSE 0) + Len(segments(name, <<>>))

\* the path made of the segments after the first `gone`
rest_segments(segs, gone) == join_segments(SubSeq(segs, gone + 1, Len(segs)))

\* Components::as_path() after k >= 1 calls of next()
after_components(name, k) ==
    rest_segments(segments(name, <<>>), IF starts_with(name, "/") THEN k - 1 ELSE k)

\* [s, i] after the strip loop has taken i components
strip_result(name, i) ==
    [s |-> IF i = 0 THEN None ELSE Some(after_components(name, i)), i |-> i]

\* "handle -p path truncation": [s, i] after the loop
strip_loop(name, v) ==
    strip_result(name, IF v < n_components(name) THEN v ELSE n_components(name))

XXXXXX == <<"X", "X", "X", "X", "X", "X">>

\* `[name, Path::new("XXXXXX")].iter().collect()`
temp_path(name) ==
    IF name = <<>> THEN XXXXXX
    ELSE IF name[Len(name)] = "/" THEN name \o XXXXXX
    ELSE name \o <<"/">> \o XXXXXX

\* common.rs copy_tempfile: File::create needs `name` to be a directory unless
\* it is empty, and fs::metadata needs `name` to exist.
copy_tempfile(w, name) ==
    IF name # <<>> THEN Err(w, "File::create")
    ELSE Err([w EXCEPT !.fs = [@ EXCEPT ![temp_path(name)] = Some(<<>>)]], "fs::metadata")

\* -------------------------------------------------------- main, line by line
\* main's locals and the Globals travel in S = [toy, debug, state, oldname,
\* newname, call, w]; S.debug says whether the build has debug assertions on,
\* S.call is the observation of a call of apply_one_hunk.
Fail(S, m) == [S EXCEPT !.w = Err(@, m)]

\* "If an original file was provided on the command line, it overrides *all*
\* files mentioned in the patch"
named(S) ==
    IF S.toy.files = <<>> THEN S
    ELSE IF S.toy.reverse THEN [S EXCEPT !.oldname = Some(S.toy.files[1]), !.toy.strip = None]
    ELSE [S EXCEPT !.newname = Some(S.toy.files[1]), !.toy.strip = None]

\* `let oldsum = ...; let newsum = ...;`
oldsum(g) == g.oldline + g.oldlen
newsum(g) == g.newline + g.newlen

\* `if oldname == Some(DEVNULL()) || oldsum > 0` (-R), `if newname == ...`
is_del(S) ==
    IF S.toy.reverse THEN S.oldname = Some(DEVNULL) \/ oldsum(S.w.g) > 0
    ELSE S.newname = Some(DEVNULL) \/ newsum(S.w.g) > 0

\* the name the command line's file overrides: oldname under -R, else newname
given_name(S) == IF S.toy.reverse THEN S.oldname ELSE S.newname

\* the name `name` is taken from: newname under -R, else oldname
other_name(S) == IF S.toy.reverse THEN S.newname ELSE S.oldname

\* `globals.linenum = 0; globals.outnum = 0; globals.hunknum = 0;`
session_started(S) == [S EXCEPT !.w.g.linenum = 0, !.w.g.outnum = 0, !.w.g.hunknum = 0]

\* `let x = copy_tempfile(&name)?; globals.tempname = ...; globals.fileout = ...;`
tempfile_opened(S, w1, name) ==
    IF w1.res # "ok" THEN [S EXCEPT !.w = w1]
    ELSE session_started([S EXCEPT !.w = [w1 EXCEPT !.g.tempname = Some(temp_path(name)),
                                                   !.g.fileout = Some(temp_path(name))]])

\* `if toy.dry_run { globals.fileout = ... DEVNULL ... } else { copy_tempfile }`
open_output(S, name) ==
    IF S.toy.dry_run THEN session_started([S EXCEPT !.w.g.fileout = Some(DEVNULL)])
    ELSE tempfile_opened(S, copy_tempfile(S.w, name), name)

\* "If the old file was null, we're creating a new one."
is_create(S, name) ==
    (S.oldname = Some(DEVNULL) \/ oldsum(S.w.g) = 0) /\ Exists(S.w.fs, name)

\* "If we've got a file to open, do so."
open_target(S, name, create) ==
    IF create /\ segments(name, <<>>) = <<>> THEN Fail(S, "Unknown parent folder for new file")
    ELSE IF ~create /\ ~Exists(S.w.fs, name) THEN Fail(S, "File::open")
    ELSE open_output([S EXCEPT !.w.fs = IF create THEN [@ EXCEPT ![name] = Some(<<>>)] ELSE @,
                               !.w.g.filein = Some([path |-> name, pos |-> 0,
                                                    mode |-> IF create THEN "w" ELSE "r"])],
                     name)

\* `std::fs::remove_file(name)?; state = 0;`
remove_target(S, name) ==
    IF ~Exists(S.w.fs, name) THEN Fail(S, "remove_file")
    ELSE [S EXCEPT !.w.fs = [@ EXCEPT ![name] = None], !.state = 0]

\* `if del > 0 { ... } else if toy.strip.is_none() || i <= ... { ... }`
open_or_remove(S, del, name) ==
    IF del THEN remove_target(S, name) ELSE open_target(S, name, is_create(S, name))

\* `name = s.unwrap().to_path_buf();`
after_strip(S, del, st) ==
    IF st.s = None THEN [S EXCEPT !.w = Panic(@, "unwrap on None")]
    ELSE open_or_remove(S, del, Unwrap(st.s))

\* `match toy.strip { Some(v) => ..., None => {} }`
stripped(S, del, name) ==
    IF S.toy.strip = None THEN open_or_remove(S, del, name)
    ELSE after_strip(S, del, strip_loop(name, Unwrap(S.toy.strip)))

\* `name = newname.ok_or_else(..)?` (-R), `name = oldname.ok_or_else(..)?`
resolve(S, del) ==
    IF ~del THEN stripped(S, del, <<>>)
    ELSE IF other_name(S) = None THEN Fail(S, "Undefined file for removal")
    ELSE stripped(S, del, Unwrap(other_name(S)))

\* "If this is the first hunk, open the file."
open_session(S) == resolve(named(S), is_del(named(S)))

\* `globals.context = 0; state = 2;`, then `if globals.filein.is_none()`
header_set(S) == IF S.w.g.filein = None THEN open_session(S) ELSE S

\* the `@@ -` line once its numbers h are read
header_parsed(S, h) ==
    IF h = None THEN Fail(S, "parse")
    ELSE header_set([S EXCEPT !.w.g.oldline = Unwrap(h).oldline, !.w.g.oldlen = Unwrap(h).oldlen,
                              !.w.g.newline = Unwrap(h).newline, !.w.g.newlen = Unwrap(h).newlen,
                              !.w.g.context = 0, !.state = 2])

\* `} else if state == 1 && patchline.starts_with("@@ -") {`
hunk_header(S, patchline) == header_parsed(S, parse_hunk_header(patchline))

\* the name a `--- `/`+++ ` line leaves, after finish_oldfile
name_from_header(S, patchline, new) ==
    IF S.w.res # "ok" \/ ~header_is_devnull(patchline) THEN S
    ELSE IF new THEN [S EXCEPT !.newname = Some(DEVNULL)]
    ELSE [S EXCEPT !.oldname = Some(DEVNULL)]

\* `globals.finish_oldfile()?` in main
finished(S) == [S EXCEPT !.w = finish_oldfile(@)]

\* `if patchline.starts_with("--- ") {` and `} else if patchline.starts_with("+++ ") {`
file_header(S, patchline, new) ==
    name_from_header(finished(IF new THEN [S EXCEPT !.newname = None, !.state = 1]
                              ELSE [S EXCEPT !.oldname = None]),
                     patchline, new)

\* the output file of a call, if its lines can be seen
visible_out(w) ==
    IF w.g.fileout # None /\ Exists(w.fs, Unwrap(w.g.fileout)) THEN w.g.fileout ELSE None

\* What one call of apply_one_hunk was given (w0) and what it did (w1): an
\* observation, no state of the program; `written` are the lines the call
\* added to the output file `out`.
call_seen(w0, w1, out) ==
    [hunk |-> w0.g.current_hunk,
     context |-> w0.g.context,
     input |-> IF w0.g.filein = None THEN <<>> ELSE Unread(w0.fs, Unwrap(w0.g.filein)),
     res |-> w1.res,
     ret |-> w1.ret,
     msg |-> w1.msg,
     exitval |-> w1.g.exitval,
     diag |-> w1.diag,
     left |-> w1.g.current_hunk,
     visible |-> out # None,
     written |-> IF out = None \/ ~Exists(w1.fs, Unwrap(out)) THEN <<>>
                 ELSE DropChars(Unwrap(w1.fs[Unwrap(out)]), Len(Unwrap(w0.fs[Unwrap(out)])))]

call_record(w0, w1) == call_seen(w0, w1, visible_out(w0))

\* `state = globals.apply_one_hunk(&toy)?;`
applied_hunk(S, w1) ==
    [S EXCEPT !.w = w1,
              !.state = IF w1.res = "ok" THEN w1.ret ELSE @,
              !.call = Some(call_record(S.w, w1))]

\* "If we've consumed all expected hunk lines, apply the hunk."
counted(S) ==
    IF S.w.g.oldlen = 0 /\ S.w.g.newlen = 0 THEN applied_hunk(S, apply_one_hunk(S.w, S.toy))
    ELSE S

\* the Globals after a hunk line is pushed and counted; st is main's state
count_line(g, patchline, st) ==
    [g EXCEPT !.current_hunk = Append(@, patchline),
              !.oldlen = IF starts_with(patchline, "+") THEN @ ELSE @ - 1,
              !.newlen = IF starts_with(patchline, "-") THEN @ ELSE @ - 1,
              !.context = IF starts_with(patchline, "-") /\ st = 2 THEN @ + 1 ELSE @]

\* whether `globals.oldlen -= 1` or `globals.newlen -= 1` goes below zero
underflows(g, patchline) ==
    \/ ~starts_with(patchline, "+") /\ g.oldlen = 0
    \/ ~starts_with(patchline, "-") /\ g.newlen = 0

\* a line of the hunk's body
hunk_line(S, patchline) ==
    IF S.debug /\ underflows(S.w.g, patchline)
    THEN [S EXCEPT !.w = Panic([@ EXCEPT !.g.current_hunk = Append(@, patchline)],
                               "attempt to subtract with overflow")]
    ELSE counted([S EXCEPT !.w.g = count_line(@, patchline, S.state),
                           !.state = IF starts_with(patchline, "-") /\ @ = 2 THEN 2 ELSE 3])

\* `globals.fail_hunk(&toy)?; state = 0;`
failed_hunk(S, w1) == [S EXCEPT !.w = w1, !.state = IF w1.res = "ok" THEN 0 ELSE @]

\* `globals.current_hunk.pop_front(); globals.fail_hunk(&toy)?; state = 0;`
hunk_broken(S) ==
    failed_hunk(S, fail_hunk([S.w EXCEPT !.g.current_hunk = IF @ = <<>> THEN @ ELSE Tail(@)], S.toy))

\* "Are we assembling a hunk?": `if state >= 2 { ... continue; }`
assemble(S, patchline) ==
    IF starts_with(patchline, " ") \/ starts_with(patchline, "+") \/ starts_with(patchline, "-")
    THEN hunk_line(S, patchline)
    ELSE hunk_broken(S)

\* `globals.hunknum += 1;`
numbered(S) == IF S.w.res # "ok" THEN S ELSE [S EXCEPT !.w.g.hunknum = @ + 1]

\* The header dispatch without the `state == 1` guard of the `@@ -` branch
dispatch_any_state(S, patchline) ==
    IF starts_with_str(patchline, <<"-", "-", "-", " ">>) THEN file_header(S, patchline, FALSE)
    ELSE IF starts_with_str(patchline, <<"+", "+", "+", " ">>) THEN file_header(S, patchline, TRUE)
    ELSE IF starts_with_str(patchline, <<"@", "@", " ", "-">>) THEN hunk_header(S, patchline)
    ELSE S

\* "Open a new file?" and "Start a new hunk?"
dispatch(S, patchline) ==
    IF starts_with_str(patchline, <<"-", "-", "-", " ">>) THEN file_header(S, patchline, FALSE)
    ELSE IF starts_with_str(patchline, <<"+", "+", "+", " ">>) THEN file_header(S, patchline, TRUE)
    ELSE IF S.state = 1 /\ starts_with_str(patchline, <<"@", "@", " ", "-">>)
    THEN hunk_header(S, patchline)
    ELSE S

\* the loop body once the NUL test is done
line_step(S, patchline) ==
    IF S.state >= 2 THEN assemble(S, patchline) ELSE numbered(dispatch(S, patchline))

\* `if patchline.starts_with('\0') { patchline = String::from(" "); }`
nul_to_space(p) == IF starts_with(p, NUL) THEN <<" ">> ELSE p

\* The body of `for p in BufReader::new(filepatch).lines()`, for one line
main_line(S, p) ==
    line_step([S EXCEPT !.w.diag = {}, !.call = None], nul_to_space(p))

\* After the loop: `globals.finish_oldfile()?; match globals.exitval { ... }`
main_end(S) == [S EXCEPT !.w = finish_oldfile([@ EXCEPT !.diag = {}]), !.call = None]

\* The exit status of the process: main returned Ok(()), main returned Err
\* (an error passed up by `?`, or `Err(anyhow!(v))` for exitval = Some(v)),
\* or the process panicked.
exit_status(res, exitval) ==
    IF res = "panic" THEN EXIT_PANIC
    ELSE IF res = "err" THEN EXIT_FAILURE
    ELSE IF exitval # None THEN EXIT_FAILURE
    ELSE 0

\* ------------------------------------------------------------ the inputs
\* The target file of the model and its temporary copy
F == <<"f">>
TEMP == temp_path(F)
Paths == {F, TEMP, <<>>, XXXXXX}

\* File lines: one trivial line and one with two non-blank characters
FileLines == {<<"a">>, <<"a", "b">>}

RECURSIVE SeqsUpTo(_, _)
SeqsUpTo(S, n) ==
    IF n = 0 THEN {<<>>}
    ELSE LET shorter == SeqsUpTo(S, n - 1)
         IN  shorter \cup {Append(q, x) : q \in {r \in shorter : Len(r) = n - 1}, x \in S}

FileContents == SeqsUpTo(FileLines, MaxFileLen)

\* Hunk body lines: context, removal and insertion of each file line
HunkLines == {<<c>> \o l : c \in {" ", "-", "+"}, l \in FileLines}

OLD_HEADER == <<"-", "-", "-", " ", "f">>
NEW_HEADER == <<"+", "+", "+", " ", "f">>
\* "@@ -1,1 +1,1 @@"
HUNK_HEADER == <<"@", "@", " ", "-", "1", ",", "1", " ", "+", "1", ",", "1", " ", "@", "@">>
\* "@@ -1,100 +1,100 @@"
LONG_HEADER == <<"@", "@", " ", "-", "1", ",", "1", "0", "0", " ",
                 "+", "1", ",", "1", "0", "0", " ", "@", "@">>
\* "@@ -0 ,0 ++0 ,0"
ODD_HEADER == <<"@", "@", " ", "-", "0", " ", ",", "0", " ", "+", "+", "0", " ", ",", "0">>
JUNK_LINE == <<"x">>
NUL_LINE == <<NUL, "x">>

PatchLineSet ==
    HunkLines \cup {OLD_HEADER, NEW_HEADER, HUNK_HEADER, LONG_HEADER, ODD_HEADER, JUNK_LINE, NUL_LINE}

\* The command lines: -R and --dry-run in every combination, and at most
\* MaxOtherOptions of the other options (-l, -s, -F 1, -p 0, -p 1, a file).
MaxOtherOptions == 1

AllToys ==
    [reverse : BOOLEAN, dry_run : BOOLEAN, silent : BOOLEAN,
     loose : {None, Some(TRUE)}, fuzz : {None, Some(1)},
     strip : {None, Some(0), Some(1)}, files : {<<>>, <<F>>}]

n_other_options(t) ==
    (IF t.silent THEN 1 ELSE 0) + (IF t.loose # None THEN 1 ELSE 0)
    + (IF t.fuzz # None THEN 1 ELSE 0) + (IF t.strip # None THEN 1 ELSE 0)
    + (IF t.files # <<>> THEN 1 ELSE 0)

Toys == {t \in AllToys : n_other_options(t) <= MaxOtherOptions}

\* `let mut globals: Globals = Default::default();`
default_globals ==
    [current_hunk |-> <<>>, oldline |-> 0, oldlen |-> 0, newline |-> 0, newlen |-> 0,
     linenum |-> 0, outnum |-> 0, context |-> 0, state |-> 0,
     filein |-> None, fileout |-> None, hunknum |-> 0,
     tempname |-> None, destname |-> None, exitval |-> None]

\* ---------------------------------------------------------------- diff.rs
\* diff_dir works on D = [TT, l, r, at, msg, out]: TT are the Globals it reads
\* and writes (dir, len, optflags.new_file, status), l and r its two indices,
\* `at` where it is ("walk", or how it ended: "returned", "err", "panic"),
\* `out` the 'Only in' lines printed.  A path is the sequence of its
\* components; indices count from 0 as in the source.

\* enum Status
SAME == "SAME"
DIFFER == "DIFFER"

\* The file names of the model in their order
NameOrder == <<"a", "b", "s", "x", "y", "z">>

\* the place of a name in that order
rank(n) == CHOOSE i \in DOMAIN NameOrder : NameOrder[i] = n

\* `f0.partial_cmp(f1)`: the order of two paths, component by component
RECURSIVE path_cmp(_, _)
path_cmp(p, q) ==
    IF p = <<>> THEN (IF q = <<>> THEN "Equal" ELSE "Less")
    ELSE IF q = <<>> THEN "Greater"
    ELSE IF rank(Head(p)) < rank(Head(q)) THEN "Less"
    ELSE IF rank(Head(p)) > rank(Head(q)) THEN "Greater"
    ELSE path_cmp(Tail(p), Tail(q))

\* Path::strip_prefix: None stands for Err(StripPrefixError)
strip_prefix(p, base) ==
    IF Len(base) <= Len(p) /\ SubSeq(p, 1, Len(base)) = base
    THEN Some(SubSeq(p, Len(base) + 1, Len(p)))
    ELSE None

\* `TT.dir[i].len()` and `TT.dir[i][k].path()`
dir_len(D, i) == Len(D.TT.dir[i + 1])
dir_entry(D, i, k) == D.TT.dir[i + 1][k + 1]

\* `TT.dir[i][k].path().strip_prefix(&TT.len[i])`
rel(D, i, k) == strip_prefix(dir_entry(D, i, k), D.TT.len[i + 1])

\* Vec::remove(k)
removed(v, k) == SubSeq(v, 1, k) \o SubSeq(v, k + 2, Len(v))

diff_err(D, m) == [D EXCEPT !.at = "err", !.msg = m]
diff_panic(D, m) == [D EXCEPT !.at = "panic", !.msg = m]

\* `println!("Only in {}: {}", d, name)`
only_in(D, d, name) == [D EXCEPT !.out = Append(@, [dir |-> d, name |-> name])]

\* `TT.status = Status::DIFFER`
differ(D) == [D EXCEPT !.TT.status = DIFFER]

\* create_empty_entry(l, r, j, TT): st, f and path are empty Vecs, so the
\* first `path[..] = `, `f[i] = ` or `st[0]` is out of bounds; the right-hand
\* side of an assignment is evaluated first and its `?` can return before.
create_empty_entry(D, j) ==
    IF j = "Greater" /\ D.TT.new_file THEN
        IF rel(D, 1, D.r) = None THEN diff_err(D, "StripPrefixError")
        ELSE diff_panic(D, "index out of bounds: path")
    ELSE IF j = "Less" /\ D.TT.new_file THEN
        IF rel(D, 0, D.l) = None THEN diff_err(D, "StripPrefixError")
        ELSE diff_panic(D, "index out of bounds: path")
    ELSE IF j = "Equal" THEN diff_panic(D, "index out of bounds: f")
    ELSE diff_panic(D, "index out of bounds: st")

\* `if !TT.optflags.new_file { match j { ... } TT.status = Status::DIFFER; }`
merge_plain(D, j, f0, f1) ==
    differ(IF j = "Greater" THEN [only_in(D, D.TT.len[1], f0) EXCEPT !.r = @ + 1]
           ELSE [only_in(D, D.TT.len[2], f1) EXCEPT !.l = @ + 1])

\* the `match j` after create_empty_entry
advance_both(D, j) ==
    IF D.at # "walk" THEN D
    ELSE [D EXCEPT !.l = IF j = "Greater" THEN @ ELSE @ + 1,
                   !.r = IF j = "Less" THEN @ ELSE @ + 1]

\* the loop body once j is known
merge_ordered(D, j, f0, f1) ==
    IF ~D.TT.new_file THEN merge_plain(D, j, f0, f1)
    ELSE advance_both(create_empty_entry(D, j), j)

\* One iteration of `while l < TT.dir[0].len() && r < TT.dir[1].len()`:
\* f0 is entry l of the left listing, f1 entry l of the right listing
merge_step(D) ==
    IF rel(D, 0, D.l) = None THEN diff_err(D, "StripPrefixError")
    ELSE IF D.l >= dir_len(D, 1) THEN diff_panic(D, "index out of bounds: TT.dir")
    ELSE IF rel(D, 1, D.l) = None THEN diff_err(D, "StripPrefixError")
    ELSE merge_ordered(D, path_cmp(Unwrap(rel(D, 0, D.l)), Unwrap(rel(D, 1, D.l))),
                       Unwrap(rel(D, 0, D.l)), Unwrap(rel(D, 1, D.l)))

\* `TT.dir[1].remove(r); r += 1;`
right_removed(D, r) ==
    IF D.at # "walk" THEN D ELSE [D EXCEPT !.TT.dir[2] = removed(@, r), !.r = r + 1]

\* One iteration of `while r < TT.dir[1].len()` after the merge
tail_right(D) ==
    right_removed(IF ~D.TT.new_file THEN create_empty_entry(D, "Greater")
                  ELSE IF rel(D, 1, D.r) = None THEN diff_err(D, "StripPrefixError")
                  ELSE differ(only_in(D, dir_entry(D, 1, 0), Unwrap(rel(D, 1, D.r)))),
                  D.r)

\* `TT.dir[0].remove(l); l += 1;`
left_removed(D, l) ==
    IF D.at # "walk" THEN D ELSE [D EXCEPT !.TT.dir[1] = removed(@, l), !.l = l + 1]

\* One iteration of `while l < TT.dir[0].len()` after the merge
tail_left(D) ==
    left_removed(IF ~D.TT.new_file THEN create_empty_entry(D, "Less")
                 ELSE IF rel(D, 0, D.l) = None THEN diff_err(D, "StripPrefixError")
                 ELSE differ(only_in(D, dir_entry(D, 1, 0), Unwrap(rel(D, 0, D.l)))),
                 D.l)

\* ---------------------------------------------------------------- the state
VARIABLES
    toy,        \* the parsed command line (PatchToy)
    debug,      \* whether the build has debug assertions (overflow checks) on
    state,      \* main's parser state
    oldname,    \* main's oldname
    newname,    \* main's newname
    globals,    \* the Globals
    fs,         \* the file system
    at,         \* main's position: "loop" (reading the patch) or "end" (after the loop)
    status,     \* "running", or how the process ended: "returned", "fatal", "panic", "hang"
    error,      \* the message of the error that ended the process
    diag,       \* the diagnostics the last step printed
    nread,      \* the number of patch lines read
    calls,      \* the calls of apply_one_hunk so far, as call_seen records them
    fs0,        \* the file system when the process started
    TT,         \* diff: the Globals diff_dir works on (dir, len, new_file, status)
    listing,    \* diff: the two directory listings as diff_main read them
    walk,       \* diff: diff_dir's indices l and r, and where it is
    reports     \* diff: the 'Only in' lines printed so far

patch_vars == <<toy, debug, state, oldname, newname, globals, fs, at, status, error, diag, nread, calls, fs0>>

diff_vars == <<TT, listing, walk, reports>>

vars == <<patch_vars, diff_vars>>

\* diff is not running: what its variables are while patch runs
DiffIdle ==
    /\ TT = [dir |-> << <<>>, <<>> >>, len |-> << <<>>, <<>> >>, new_file |-> FALSE, status |-> SAME]
    /\ listing = << <<>>, <<>> >>
    /\ walk = [l |-> 0, r |-> 0, at |-> "idle", msg |-> ""]
    /\ reports = <<>>

\* The locals and Globals as the record the handlers work on
Current ==
    [toy |-> toy, debug |-> debug, state |-> state, oldname |-> oldname, newname |-> newname,
     call |-> None,
     w |-> [g |-> globals, fs |-> fs, res |-> "ok", ret |-> 0, msg |-> "", diag |-> {}]]

Becomes(S) ==
    /\ toy' = S.toy
    /\ state' = S.state
    /\ oldname' = S.oldname
    /\ newname' = S.newname
    /\ globals' = S.w.g
    /\ fs' = S.w.fs
    /\ error' = S.w.msg
    /\ diag' = S.w.diag
    /\ calls' = IF S.call # None THEN Append(calls, Unwrap(S.call)) ELSE calls
    /\ UNCHANGED <<debug, fs0, diff_vars>>

\* The start of main: nothing is open, any command line, the target present or not.
Init ==
    /\ toy \in Toys
    /\ debug \in BOOLEAN
    /\ state = 0
    /\ oldname = None
    /\ newname = None
    /\ globals = default_globals
    /\ fs \in {[p \in Paths |-> IF p = F THEN c ELSE None] : c \in {None} \cup {Some(x) : x \in FileContents}}
    /\ at = "loop"
    /\ status = "running"
    /\ error = ""
    /\ diag = {}
    /\ nread = 0
    /\ calls = <<>>
    /\ fs0 = fs
    /\ DiffIdle

\* The state patch.rs:809-840 are written to leave at the first `@@` header of
\* a file (File::open, then /dev/null or copy_tempfile): the session is open on
\* F, the header's counts are stored, no body line is read yet.  It is the
\* state apply_one_hunk, fail_hunk and finish_oldfile are called in.
InitOpen ==
    /\ toy \in {t \in Toys : t.files = <<>> /\ t.strip = None}
    /\ debug \in BOOLEAN
    /\ state = 2
    /\ oldname = None
    /\ newname = None
    /\ \E ol \in 0..MaxHunkCount, nl \in 0..MaxHunkCount :
          globals = [default_globals EXCEPT
                       !.oldline = 1, !.oldlen = ol, !.newline = 1, !.newlen = nl,
                       !.filein = Some([path |-> F, pos |-> 0, mode |-> "r"]),
                       !.fileout = IF toy.dry_run THEN Some(DEVNULL) ELSE Some(TEMP),
                       !.tempname = IF toy.dry_run THEN None ELSE Some(TEMP),
                       !.hunknum = 1]
    /\ \E c \in FileContents :
          fs = [p \in Paths |-> IF p = F THEN Some(c)
                                ELSE IF p = TEMP /\ ~toy.dry_run THEN Some(<<>>) ELSE None]
    /\ at = "loop"
    /\ status = "running"
    /\ error = ""
    /\ diag = {}
    /\ nread = 0
    /\ calls = <<>>
    /\ fs0 = fs
    /\ DiffIdle

\* How a step that left S ends: the process goes on (or returns), or is ended
\* by an Err passed up to main's caller, by a panic, or never gets further.
Ran(S, ok) ==
    /\ Becomes(S)
    /\ status' = (IF S.w.res = "ok" THEN ok
                  ELSE IF S.w.res = "err" THEN "fatal" ELSE S.w.res)

\* main reads the next line of the patch.
ReadPatchLine ==
    /\ status = "running"
    /\ nread < MaxPatchLines
    /\ \E p \in PatchLineSet : Ran(main_line(Current, p), "running")
    /\ nread' = nread + 1
    /\ UNCHANGED at

\* The patch ends: main finishes the open file and returns.
EndOfStream ==
    /\ status = "running"
    /\ Ran(main_end(Current), "returned")
    /\ at' = "end"
    /\ UNCHANGED nread

Next == ReadPatchLine \/ EndOfStream

\* The program from its start
Spec == Init /\ [][Next]_vars

\* The program from an open session
SpecOpen == InitOpen /\ [][Next]_vars

\* ------------------------------------------------------ diff_dir as steps
\* The most entries a directory of the model holds
MaxEntries == 2

\* The names the entries are taken from
EntryNames == {"x", "y", "z"}

NameSets == {S \in SUBSET EntryNames : Cardinality(S) <= MaxEntries}

\* the least name of a set
least(S) == CHOOSE n \in S : \A k \in S : rank(n) <= rank(k)

\* `.sort_by_file_name()`
RECURSIVE sort_names(_)
sort_names(S) == IF S = {} THEN <<>> ELSE <<least(S)>> \o sort_names(S \ {least(S)})

\* the entries `names` of the directory `root`
files_in(root, names) == [i \in DOMAIN names |-> Append(root, names[i])]

\* walkdir::WalkDir::new(root) over a directory of plain files: the root first
walk_flat(root, S) == <<root>> \o files_in(root, sort_names(S))

ROOT_A == <<"a">>
ROOT_B == <<"b">>
SUB_A == <<"a", "s">>

\* the walk of a/ that holds the files S and the directory s/ with the files R
walk_outer(S, R) == <<ROOT_A>> \o walk_flat(SUB_A, R) \o files_in(ROOT_A, sort_names(S))

\* The pairs of directories compared: a/ and b/, or a/ and its own a/s/
DirPairs ==
    {<<walk_flat(ROOT_A, L), walk_flat(ROOT_B, R)>> : L \in NameSets, R \in NameSets}
    \cup {<<walk_outer(L, R), walk_flat(SUB_A, R)>> : L \in NameSets, R \in NameSets}

\* patch is not running: what its variables are while diff runs
PatchIdle ==
    /\ toy \in {t \in Toys : /\ ~t.reverse /\ ~t.dry_run /\ ~t.silent /\ t.loose = None
                             /\ t.fuzz = None /\ t.strip = None /\ t.files = <<>>}
    /\ debug = FALSE
    /\ state = 0
    /\ oldname = None
    /\ newname = None
    /\ globals = default_globals
    /\ fs = [p \in Paths |-> None]
    /\ at = "loop"
    /\ status = "idle"
    /\ error = ""
    /\ diag = {}
    /\ nread = 0
    /\ calls = <<>>
    /\ fs0 = fs

\* diff_main on two directories, at its call of diff_dir: both listings read,
\* TT.len[0] and TT.len[1] both the first path of TT.dir[0], start = [1, 1]
InitDiff ==
    /\ PatchIdle
    /\ listing \in DirPairs
    /\ \E n \in BOOLEAN :
          TT = [dir |-> listing, len |-> <<listing[1][1], listing[1][1]>>,
                new_file |-> n, status |-> SAME]
    /\ walk = [l |-> 1, r |-> 1, at |-> "walk", msg |-> ""]
    /\ reports = <<>>

\* TT and diff_dir's locals as the record the steps work on
DiffCurrent ==
    [TT |-> TT, l |-> walk.l, r |-> walk.r, at |-> walk.at, msg |-> walk.msg, out |-> reports]

DiffBecomes(D) ==
    /\ TT' = D.TT
    /\ walk' = [l |-> D.l, r |-> D.r, at |-> D.at, msg |-> D.msg]
    /\ reports' = D.out
    /\ UNCHANGED <<listing, patch_vars>>

\* `while l < TT.dir[0].len() && r < TT.dir[1].len()`
Merging == walk.l < Len(TT.dir[1]) /\ walk.r < Len(TT.dir[2])

\* an iteration of the merge loop
DiffMerge ==
    /\ walk.at = "walk"
    /\ Merging
    /\ DiffBecomes(merge_step(DiffCurrent))

\* `if l == TT.dir[0].len() { while r < TT.dir[1].len() {`
DiffTailRight ==
    /\ walk.at = "walk"
    /\ ~Merging
    /\ walk.l = Len(TT.dir[1])
    /\ walk.r < Len(TT.dir[2])
    /\ DiffBecomes(tail_right(DiffCurrent))

\* `} else if r == TT.dir[1].len() { while l < TT.dir[0].len() {`
DiffTailLeft ==
    /\ walk.at = "walk"
    /\ ~Merging
    /\ walk.l # Len(TT.dir[1])
    /\ walk.r = Len(TT.dir[2])
    /\ walk.l < Len(TT.dir[1])
    /\ DiffBecomes(tail_left(DiffCurrent))

\* `Ok(())`
DiffReturn ==
    /\ walk.at = "walk"
    /\ ~Merging
    /\ ~(walk.l = Len(TT.dir[1]) /\ walk.r < Len(TT.dir[2]))
    /\ ~(walk.l # Len(TT.dir[1]) /\ walk.r = Len(TT.dir[2]) /\ walk.l < Len(TT.dir[1]))
    /\ walk' = [walk EXCEPT !.at = "returned"]
    /\ UNCHANGED <<TT, reports, listing, patch_vars>>

NextDiff == DiffMerge \/ DiffTailRight \/ DiffTailLeft \/ DiffReturn

\* diff_dir, called by diff_main on two directories
SpecDiff == InitDiff /\ [][NextDiff]_vars

\* Either start: the beginning of main, or an open session
InitAll == Init \/ InitOpen

\* The program from its start and from an open session
SpecAll == InitAll /\ [][Next]_vars

\* The process's exit status, once it has ended
ExitStatus ==
    exit_status(IF status = "fatal" THEN "err" ELSE IF status = "panic" THEN "panic" ELSE "ok",
                globals.exitval)

\* ------------------------------------------------ the vocabulary of the claims
\* the process has ended
Ended == status \in {"returned", "fatal", "panic"}

\* the payloads of the hunk lines whose tag is in `tags`, in hunk order
RECURSIVE payloads(_, _)
payloads(hunk, tags) ==
    IF hunk = <<>> THEN <<>>
    ELSE (IF Head(hunk)[1] \in tags THEN <<DropChars(Head(hunk), 1)>> ELSE <<>>)
         \o payloads(Tail(hunk), tags)

\* the old side of a hunk (context and removal lines of the active direction)
old_side(hunk, reverse) == payloads(hunk, {" ", IF reverse THEN "+" ELSE "-"})

\* the new side of a hunk (context and insertion lines of the active direction)
new_side(hunk, reverse) == payloads(hunk, {" ", IF reverse THEN "-" ELSE "+"})

\* `run` is in `file` as a contiguous run after the first k lines
occurs_at(file, run, k) ==
    k + Len(run) <= Len(file) /\ SubSeq(file, k + 1, k + Len(run)) = run

\* the offsets at or after `from` where `run` occurs in `file`
offsets(file, run, from) == {k \in from..Len(file) : occurs_at(file, run, k)}

\* the first of them
first_offset(file, run, from) ==
    CHOOSE k \in offsets(file, run, from) : \A j \in offsets(file, run, from) : k <= j

\* `file` with the hunk's old side after the first k lines replaced by its new side
replaced_at(file, hunk, reverse, k) ==
    SubSeq(file, 1, k) \o new_side(hunk, reverse)
    \o DropChars(file, k + Len(old_side(hunk, reverse)))

\* the hunk of call c matches its input somewhere
Applicable(c) == offsets(c.input, old_side(c.hunk, toy.reverse), 0) # {}

\* what a call that applies its hunk writes: the lines before the run, then the new side
expected_written(c) ==
    SubSeq(c.input, 1, first_offset(c.input, old_side(c.hunk, toy.reverse), 0))
    \o new_side(c.hunk, toy.reverse)

\* call c reported success and wrote what it had to
AppliedRight(c) ==
    /\ c.res = "ok"
    /\ c.ret = 1
    /\ c.visible => c.written = expected_written(c)

\* `file` with the hunks of calls[i..] applied in order, each at or after `from`
RECURSIVE patched_all(_, _, _, _)
patched_all(file, cs, reverse, from) ==
    IF cs = <<>> \/ offsets(file, old_side(cs[1].hunk, reverse), from) = {} THEN file
    ELSE patched_all(replaced_at(file, cs[1].hunk, reverse,
                                 first_offset(file, old_side(cs[1].hunk, reverse), from)),
                     Tail(cs), reverse,
                     first_offset(file, old_side(cs[1].hunk, reverse), from)
                     + Len(new_side(cs[1].hunk, reverse)))

\* An open session on a file of the given content, about to apply `hunk`
session(file, hunk, context) ==
    [g |-> [default_globals EXCEPT
              !.current_hunk = hunk, !.context = context, !.hunknum = 1,
              !.filein = Some([path |-> F, pos |-> 0, mode |-> "r"]),
              !.fileout = Some(TEMP), !.tempname = Some(TEMP)],
     fs |-> [p \in Paths |-> IF p = F THEN Some(file) ELSE IF p = TEMP THEN Some(<<>>) ELSE None],
     res |-> "ok", ret |-> 0, msg |-> "", diag |-> {}]

\* The content under the target's name after the session applied the hunk
\* and was finished; None when the run did not get that far
session_result(w) == IF w.res = "ok" /\ w.ret = 1 THEN w.fs[F] ELSE None

one_hunk_run(file, hunk, context, t) ==
    session_result(finish_oldfile(apply_one_hunk(session(file, hunk, context), t)))

\* -------------------------------------------------------------- the claims
\* C1: forward, exact comparison, fuzz 0: whenever the input holds the hunk's
\* old side as a contiguous run, apply_one_hunk succeeds and writes the lines
\* before the run unchanged, then the hunk's new side.
C1_ForwardExact ==
    \A i \in DOMAIN calls :
        (~toy.reverse /\ toy.loose = None /\ Applicable(calls[i])) => AppliedRight(calls[i])

\* C2: if a hunk of the target fails to match, then after the run the target's
\* content is what it was before the run, and the exit status is not zero.
C2_FailureLeavesFile ==
    (Ended /\ \E i \in DOMAIN calls : ~Applicable(calls[i]))
    => (fs[F] = fs0[F] /\ ExitStatus # 0)

C4_FinishReplaces ==
    (/\ at = "end"
     /\ ~toy.dry_run
     /\ state = 1
     /\ calls # <<>>
     /\ \A i \in DOMAIN calls : Applicable(calls[i]) /\ calls[i].res = "ok" /\ calls[i].ret = 1)
    => (/\ status = "returned"
        /\ fs[F] = Some(patched_all(Unwrap(fs0[F]), calls, toy.reverse, 0)))

\* C5: round trip: a hunk that applies forward to a file F gives F', and the
\* same hunk applied with the reverse flag to F' gives F back.
C5_RoundTrip ==
    \A i \in DOMAIN calls :
        (~toy.reverse /\ toy.loose = None /\ Applicable(calls[i]))
        => /\ one_hunk_run(calls[i].input, calls[i].hunk, calls[i].context, toy) # None
           /\ one_hunk_run(Unwrap(one_hunk_run(calls[i].input, calls[i].hunk, calls[i].context, toy)),
                           calls[i].hunk, calls[i].context, [toy EXCEPT !.reverse = TRUE])
              = Some(calls[i].input)

\* "@@ -1 ,0 ++1 ,0": ODD_HEADER with other start numbers
ODD_HEADER_1 == <<"@", "@", " ", "-", "1", " ", ",", "0", " ", "+", "+", "1", " ", ",", "0">>

\* how the handling of a `@@` line ended, and what it decided
outcome(S) ==
    [res |-> S.w.res, fs |-> S.w.fs, opened |-> S.w.g.filein # None, state |-> S.state]

\* C6: a hunk whose old side is at exactly one offset of the input is applied
\* there, and two `@@` lines that differ only in their start numbers have the
\* same outcome (success or failure, output, decision to patch the file).
C6_StartNumbersIgnored ==
    /\ \A i \in DOMAIN calls :
          (toy.loose = None
           /\ Cardinality(offsets(calls[i].input, old_side(calls[i].hunk, toy.reverse), 0)) = 1)
          => AppliedRight(calls[i])
    /\ (status = "running" /\ state = 1)
       => outcome(hunk_header(Current, ODD_HEADER)) = outcome(hunk_header(Current, ODD_HEADER_1))

\* the hunk of call c is anchored at end-of-file
Anchored(c) == matcheof_of(trail_from(c.hunk, 0), c.context)

\* the old side of call c's hunk is the end of its input
MatchesAtEnd(c) ==
    /\ Len(old_side(c.hunk, toy.reverse)) <= Len(c.input)
    /\ occurs_at(c.input, old_side(c.hunk, toy.reverse),
                 Len(c.input) - Len(old_side(c.hunk, toy.reverse)))

\* C7: an EOF-anchored hunk succeeds if and only if its last old-side line is
\* matched by the last line of the input; a hunk that is not anchored succeeds
\* as soon as its last line is matched, whatever follows.
C7_EofAnchor ==
    \A i \in DOMAIN calls :
        toy.loose = None
        => /\ calls[i].res = "ok"
           /\ (calls[i].ret = 1)
              <=> (IF Anchored(calls[i]) THEN MatchesAtEnd(calls[i]) ELSE Applicable(calls[i]))

\* the old-side lines of a hunk with their tags
RECURSIVE old_lines(_, _)
old_lines(hunk, reverse) ==
    IF hunk = <<>> THEN <<>>
    ELSE (IF Head(hunk)[1] \in {" ", IF reverse THEN "+" ELSE "-"} THEN <<Head(hunk)>> ELSE <<>>)
         \o old_lines(Tail(hunk), reverse)

\* the positions where the old-side lines `ol` differ from the input after its first k lines
mismatches(input, ol, k) == {j \in 1..Len(ol) : input[k + j] # DropChars(ol[j], 1)}

\* after the first k input lines the hunk matches but for one context line
OneContextOff(c, k) ==
    /\ k + Len(old_lines(c.hunk, toy.reverse)) <= Len(c.input)
    /\ Cardinality(mismatches(c.input, old_lines(c.hunk, toy.reverse), k)) = 1
    /\ \A j \in mismatches(c.input, old_lines(c.hunk, toy.reverse), k) :
          starts_with(old_lines(c.hunk, toy.reverse)[j], " ")

\* C8: a hunk with two or more non-trivial context/removal lines and exactly
\* one context line that differs from the file applies when the fuzz budget
\* (the fuzz option, else context width - 1) is at least 1, and fails when the
\* budget is 0.
C8_Fuzz ==
    \A i \in DOMAIN calls :
        (/\ toy.loose = None
         /\ fuzz_lines(calls[i].hunk, toy.reverse) >= 2
         /\ ~Applicable(calls[i])
         /\ \E k \in 0..Len(calls[i].input) : OneContextOff(calls[i], k))
        => /\ calls[i].res = "ok"
           /\ (calls[i].ret = 1) <=> (computed_allfuzz(calls[i].hunk, toy, calls[i].context) >= 1)

\* the exit status of a run that an Err ended
FATAL_STATUS == exit_status("err", None)

\* C9: the exit status is 0 if and only if the run came to the end of the
\* patch with no hunk failed; a run that came to the end with a failed hunk
\* has a nonzero status that differs from the status of an aborted run.
C9_ExitContract ==
    Ended
    => /\ (ExitStatus = 0) <=> (status = "returned" /\ globals.exitval = None)
       /\ (status = "returned" /\ globals.exitval # None)
          => (ExitStatus # 0 /\ ExitStatus # FATAL_STATUS)
       /\ status = "fatal" => ExitStatus = FATAL_STATUS

\* the errors of finish_oldfile's operations on the temporary file
TempFileErrors == {"destname unset?!", "rename", "io::copy", "fileout unavailable"}

\* C10: after a hunk failed (no dry run) the run goes on: no copy into and no
\* rename of the discarded temporary file is attempted, so none ends the run.
C10_FailureRecoverable ==
    (~toy.dry_run /\ globals.exitval # None)
    => ~(status = "fatal" /\ error \in TempFileErrors)

\* C11: content never ends a call with an error: every call of apply_one_hunk
\* on a readable input returns a success state or a failed-hunk state.
C11_NoContentError ==
    \A i \in DOMAIN calls : calls[i].res = "ok" /\ calls[i].ret \in {0, 1}

\* the decimal numeral of n
RECURSIVE decimal(_)
decimal(n) ==
    IF n < 10 THEN <<DigitChars[n + 1]>>
    ELSE Append(decimal(n \div 10), DigitChars[(n % 10) + 1])

\* ",len", or nothing when the length is omitted
len_text(l) == IF l = None THEN <<>> ELSE <<",">> \o decimal(Unwrap(l))

\* the line `@@ -a[,b] +c[,d] @@`
header_line(a, b, c, d) ==
    <<"@", "@", " ", "-">> \o decimal(a) \o len_text(b) \o <<" ", "+">>
    \o decimal(c) \o len_text(d) \o <<" ", "@", "@">>

\* the start numbers and the lengths (None: omitted) of the headers looked at
HeaderStarts == {1, 12}
HeaderLens == {None, Some(3), Some(100)}

\* the length a header declares
declared(l) == IF l = None THEN 1 ELSE Unwrap(l)

\* the `@@` line is read without a parse error and stores a, b, c, d
ParsedAs(S, a, b, c, d) ==
    /\ S.w.msg # "parse"
    /\ S.state = 2
    /\ S.w.g.oldline = a /\ S.w.g.oldlen = declared(b)
    /\ S.w.g.newline = c /\ S.w.g.newlen = declared(d)

\* C12: a line `@@ -a[,b] +c[,d] @@` read in the hunk-expected state sets
\* oldline = a, oldlen = b, newline = c, newlen = d (an omitted length is 1)
\* and enters the assembling state without a parse error.
C12_HeaderNumbers ==
    (status = "running" /\ state = 1)
    => \A a \in HeaderStarts, c \in HeaderStarts, b \in HeaderLens, d \in HeaderLens :
          ParsedAs(hunk_header(Current, header_line(a, b, c, d)), a, b, c, d)

\* the session the `@@` line opened reads the file `name`
OpenedOn(S, name) == S.w.g.filein # None /\ Unwrap(S.w.g.filein).path = name

\* C13: at the first `@@` line of a file that is not deleted, the path opened
\* is the file of the command line if one is given, else (forward) the name of
\* the `+++ ` line.
C13_TargetName ==
    (status = "running" /\ state = 1 /\ Exists(fs, F)
     /\ (~toy.reverse \/ toy.files # <<>>) /\ toy.strip = None)
    => \A h \in {LONG_HEADER, ODD_HEADER} : OpenedOn(hunk_header(Current, h), F)

\* the `@@` line did not take the removal branch and left the target in place
NotRemoved(S) ==
    /\ S.w.msg # "Undefined file for removal"
    /\ S.state # 0
    /\ S.w.fs[F] = fs[F]

\* C14: forward, with ordinary names on both sides and a hunk whose new-side
\* counts are not zero, the target is not taken for removed: it stays in place
\* and the parser goes on to the hunk's body.
C14_DeleteDecision ==
    (status = "running" /\ state = 1 /\ Exists(fs, F) /\ ~toy.reverse
     /\ oldname # Some(DEVNULL) /\ newname # Some(DEVNULL))
    => NotRemoved(hunk_header(Current, LONG_HEADER))

\* the open step left the existing target as it was and reads it
OpenedForRead(S) ==
    /\ S.w.fs[F] = fs[F]
    /\ OpenedOn(S, F)
    /\ Unwrap(S.w.g.filein).mode = "r"

\* C15: a target that exists is opened for reading, never created over or
\* truncated, when the session is opened on it.
C15_CreateDecision ==
    (status = "running" /\ state = 1 /\ Exists(fs, F) /\ globals.filein = None)
    => OpenedForRead(open_target(Current, F, is_create(Current, F)))

\* the names "f", "a/f" and "a//f"
DIR_F == <<"a", "/", "f">>
DIR2_F == <<"a", "/", "/", "f">>
StripNames == {F, DIR_F, DIR2_F}

\* `name` without its first n segments
without_segments(name, n) == rest_segments(segments(name, <<>>), n)

\* C16: with strip count n the first n segments of the name are removed,
\* n = 0 leaves the name unchanged, and the result is defined for every n.
C16_Strip ==
    (status = "running" /\ state = 1 /\ toy.strip # None)
    => \A name \in StripNames :
          /\ strip_loop(name, Unwrap(toy.strip)).s # None
          /\ Unwrap(strip_loop(name, Unwrap(toy.strip)).s)
             = without_segments(name, Unwrap(toy.strip))

\* C17: with no -p option only the last component of the name is the target.
C17_StripAllByDefault ==
    (status = "running" /\ state = 1 /\ toy.strip = None /\ toy.files = <<>>
     /\ Exists(fs, F) /\ globals.filein = None)
    => OpenedOn(stripped(Current, FALSE, DIR_F), F)

\* "--- f<TAB>1970" and "+++ f<TAB>1970"
OLD_EPOCH == OLD_HEADER \o <<"\t", "1", "9", "7", "0">>
NEW_EPOCH == NEW_HEADER \o <<"\t", "1", "9", "7", "0">>

\* C18: a `--- ` or `+++ ` line whose metadata is a year <= 1970 makes its side
\* the sentinel; a line without metadata leaves its side the named file.
C18_SentinelByDate ==
    (status = "running" /\ globals.filein = None)
    => /\ file_header(Current, OLD_EPOCH, FALSE).oldname = Some(DEVNULL)
       /\ file_header(Current, NEW_EPOCH, TRUE).newname = Some(DEVNULL)
       /\ file_header(Current, OLD_HEADER, FALSE).oldname = Some(F)
       /\ file_header(Current, NEW_HEADER, TRUE).newname = Some(F)

\* a line with every NUL replaced by a space
RECURSIVE spaced(_)
spaced(p) ==
    IF p = <<>> THEN <<>>
    ELSE <<IF Head(p) = NUL THEN " " ELSE Head(p)>> \o spaced(Tail(p))

\* a context line with a NUL in the middle
NUL_MID == <<" ", NUL, "x">>

\* the hunk line main has just pushed
pushed(S) == S.w.g.current_hunk[Len(S.w.g.current_hunk)]

\* C19: a NUL at any position of a patch line becomes one space and the rest of
\* the line is kept: the line pushed to the hunk is the line read with its
\* NULs replaced.
C19_NulToSpace ==
    (status = "running" /\ state >= 2 /\ globals.oldlen > 1 /\ globals.newlen > 1)
    => \A p \in {NUL_LINE, NUL_MID} : pushed(main_line(Current, p)) = spaced(p)

\* a line without its ASCII whitespace
RECURSIVE unspaced(_)
unspaced(l) ==
    IF l = <<>> THEN <<>>
    ELSE (IF is_ascii_whitespace(Head(l)) THEN <<>> ELSE <<Head(l)>>) \o unspaced(Tail(l))

\* the file lines and their variants with other whitespace
LooseLines == FileLines \cup {<<"a", " ", "b">>, <<" ", "a">>, <<"a", "\t">>}

\* C20: loosecmp(a, b) is Equal exactly when a and b are the same without
\* their whitespace, and Greater otherwise; with the loose option a file line
\* and a hunk line that differ in whitespace only match.
C20_LooseCompare ==
    toy.loose # None
    => \A a \in LooseLines, b \in LooseLines :
          lcmp(toy, a, b) = (IF unspaced(a) = unspaced(b) THEN "Equal" ELSE "Greater")

\* the hunk line that inserts the payload "a" in the active direction
inserted_a == <<IF toy.reverse THEN "-" ELSE "+", "a">>

\* the read loop at the end of the input, nothing buffered
at_eof(w) == [w |-> w, buf |-> <<>>, c |-> 0, fuzz |-> 0, backwarn |-> 0, rest |-> <<>>]

\* the 'Possibly reversed hunk' warning was printed
Warned(w) == "reversed" \in w.diag

C22_FailReported ==
    \A i \in DOMAIN calls :
        calls[i].res = "ok"
        => IF Applicable(calls[i]) THEN calls[i].ret = 1
           ELSE /\ calls[i].ret = 0
                /\ "FAILED" \in calls[i].diag
                /\ calls[i].exitval = Some(1)

\* the hunk was failed: exit flag set, temp output gone, hunk empty, Preamble
BrokenAndFailed(S) ==
    /\ S.w.res = "ok"
    /\ S.w.g.exitval = Some(1)
    /\ S.state = 0
    /\ S.w.g.current_hunk = <<>>
    /\ ~S.toy.dry_run => ~Exists(S.w.fs, TEMP)

\* C23: in the assembling state a line that starts with none of ' ', '+', '-'
\* fails the hunk, however many body lines are collected.
C23_MalformedLineFails ==
    (status = "running" /\ state >= 2 /\ (globals.oldlen > 0 \/ globals.newlen > 0))
    => BrokenAndFailed(main_line(Current, JUNK_LINE))

\* C24: when the patch ends inside a hunk (its counts not both zero) the exit
\* status is not zero and the target keeps its content.
C24_TruncatedHunkFails ==
    (at = "end" /\ Ended /\ state >= 2 /\ (globals.oldlen # 0 \/ globals.newlen # 0))
    => ExitStatus # 0 /\ fs[F] = fs0[F]

\* the `@@ -` lines of the model
HunkHeaders == {HUNK_HEADER, LONG_HEADER, ODD_HEADER}

\* C25 as stated: a `--- ` line leaves the parser where an `@@ -` line that
\* follows it directly is ignored, and a `+++ ` line with no `--- ` line before
\* it does not make the parser expect a hunk.
C25_HeaderOrdering ==
    (status = "running" /\ state < 2 /\ globals.filein = None)
    => /\ dispatch(dispatch(Current, OLD_HEADER), LONG_HEADER) = dispatch(Current, OLD_HEADER)
       /\ nread = 0 => dispatch(Current, NEW_HEADER).state # 1

\* C25 amended: outside a hunk every `+++ ` line makes the parser expect a
\* hunk (state 1), a `--- ` line leaves the parser state as it is, and an
\* `@@ -` line read in Preamble (state 0) changes nothing and opens no file.
C25_HunkExpectedAfterNew ==
    (status = "running" /\ state < 2)
    => /\ dispatch(Current, NEW_HEADER).state = 1
       /\ dispatch(Current, OLD_HEADER).state = state
       /\ state = 0 => \A h \in HunkHeaders : dispatch(Current, h) = Current

\* lines were read and the parser is in Preamble with nothing open
C25_Witness ==
    /\ status = "running"
    /\ state = 0
    /\ nread >= 2
    /\ globals.hunknum >= 2
    /\ globals.filein = None

\* the last call of apply_one_hunk
last_call == calls[Len(calls)]

\* a call that came to the end of the input with a hunk that is not anchored
\* there: the path through fail_hunk
FailedAtEnd(c) ==
    c.res = "ok" /\ ~matcheof_of(trail_from(c.hunk, 0), c.context)

\* C26: after a hunk of a file failed, and before the next file header, an
\* `@@ -` line and the body line after it do not call apply_one_hunk and leave
\* the session as it is.
C26_NoReapplyAfterFailure ==
    (status = "running" /\ calls # <<>> /\ FailedAtEnd(last_call)
     /\ state < 2 /\ globals.filein # None)
    => /\ main_line(main_line(Current, LONG_HEADER), <<" ", "a">>).call = None
       /\ dispatch(Current, LONG_HEADER).state < 2

\* C27: the session open when the patch stream ends is finalized by
\* finish_oldfile: main returns, and filein, fileout and tempname are unset.
C27_SessionFinalized ==
    (at = "end" /\ Ended)
    => /\ status = "returned"
       /\ globals.filein = None
       /\ globals.fileout = None
       /\ globals.tempname = None

\* C28: between patch lines tempname is set exactly when the temp output file
\* exists, and it is never set in dry-run mode.
C28_TempnameOwed ==
    status = "running"
    => /\ globals.tempname # None <=> Exists(fs, TEMP)
       /\ toy.dry_run => globals.tempname = None

\* the number of context lines at the start of a hunk
RECURSIVE leading_context(_)
leading_context(hunk) ==
    IF hunk = <<>> \/ ~starts_with(Head(hunk), " ") THEN 0
    ELSE 1 + leading_context(Tail(hunk))

\* C29: the context width of a complete hunk is the number of consecutive
\* context lines at the start of its body.
C29_ContextWidth ==
    \A i \in DOMAIN calls : calls[i].context = leading_context(calls[i].hunk)

\* a hunk without the insertions of the active direction at its front
RECURSIVE without_leading_insertions(_, _)
without_leading_insertions(hunk, reverse) ==
    IF hunk = <<>> \/ ~starts_with(Head(hunk), IF reverse THEN "-" ELSE "+") THEN hunk
    ELSE without_leading_insertions(Tail(hunk), reverse)

\* the first line a call reads from its input, None at the end of the input
first_data(c) == IF c.input = <<>> THEN None ELSE Some(Head(c.input))

\* C30: the skip loop of a read step removes the leading insertions of the
\* active direction only and stops at the first context or removal line.
C30_SkipLoop ==
    \A i \in DOMAIN calls :
        skip_loop(calls[i].hunk, first_data(calls[i]), toy, 0, 0).plist
        = without_leading_insertions(calls[i].hunk, toy.reverse)

\* The compare loop entered with the lines `buf` buffered, nothing left to
\* read, and the hunk of the one context line " a" (context width 1) still
\* whole: the state the loop is written for
compare_case(buf) ==
    [w |-> session(<<>>, << <<" ", "a">> >>, 1),
     buf |-> buf, c |-> 0, fuzz |-> 0, backwarn |-> 0, rest |-> <<>>]

\* trail = 1 and no EOF anchor for that hunk
compare_pre == [trail |-> 1, matcheof |-> FALSE]

\* the call returned a match and the temp output holds `lines`
MatchedWith(w, lines) == w.res = "ok" /\ w.ret = 1 /\ w.fs[TEMP] = Some(lines)

budget(c) == computed_allfuzz(c.hunk, toy, c.context)

\* after the first k input lines the old side of call c's hunk is there, but
\* for at most budget(c) lines, all of them context lines
WithinBudget(c, k) ==
    /\ k + Len(old_lines(c.hunk, toy.reverse)) <= Len(c.input)
    /\ Cardinality(mismatches(c.input, old_lines(c.hunk, toy.reverse), k)) <= budget(c)
    /\ \A j \in mismatches(c.input, old_lines(c.hunk, toy.reverse), k) :
          starts_with(old_lines(c.hunk, toy.reverse)[j], " ")

\* C32: a hunk with fewer than two non-trivial lines that does not fit its
\* input exactly fails; and every call that reports a match has its hunk's old
\* side in the input but for at most the budget's number of context lines.
C32_FuzzEligibility ==
    \A i \in DOMAIN calls :
        toy.loose = None
        => /\ (fuzz_lines(calls[i].hunk, toy.reverse) < 2 /\ ~Applicable(calls[i]))
              => (calls[i].res = "ok" /\ calls[i].ret = 0)
           /\ (calls[i].res = "ok" /\ calls[i].ret = 1)
              => \E k \in 0..Len(calls[i].input) : WithinBudget(calls[i], k)

\* the buffers the compare loop is looked at with
CompareBuffers == FileContents \ {<<>>}

C34_HunkUnaltered ==
    \A i \in DOMAIN calls :
        /\ calls[i].res = "err" => calls[i].left = calls[i].hunk
        /\ (calls[i].res = "ok" /\ calls[i].ret = 1 /\ calls[i].visible)
           => Len(calls[i].written) >= Len(new_side(calls[i].hunk, toy.reverse))

\* C35: the remaining old and new counts never go below zero, and no body line
\* is taken that would bring one there.
C35_CountsNotNegative ==
    /\ globals.oldlen >= 0
    /\ globals.newlen >= 0
    /\ error # "attempt to subtract with overflow"

\* the relative paths of the entries of one listing as diff_main read it
\* (side 1: left, side 2: right), the directory itself left out
names_of(side) ==
    {SubSeq(listing[side][k], Len(listing[side][1]) + 1, Len(listing[side][k])) :
        k \in 2..Len(listing[side])}

\* an 'Only in' line names a directory that holds the entry while the other
\* directory holds no entry of that relative path
OnlyThere(rep) ==
    \E side \in {1, 2} :
        /\ listing[side][1] = rep.dir
        /\ rep.name \in names_of(side)
        /\ rep.name \notin names_of(3 - side)

\* C36: the merge walk never indexes a listing out of range, every 'Only in'
\* line it prints names an entry the other side does not have, and for two
\* listings of the same relative paths it returns with no 'Only in' line and
\* the status SAME.
C36_MergeWalk ==
    /\ walk.msg # "index out of bounds: TT.dir"
    /\ \A i \in DOMAIN reports : OnlyThere(reports[i])
    /\ (walk.at \notin {"walk", "idle"} /\ names_of(1) = names_of(2))
       => (walk.at = "returned" /\ reports = <<>> /\ TT.status = SAME)

====
